---- MODULE Spec2Model ----
(***************************************************************************)
(* Parser-combinator engine of tmx (src/parser.rs, src/range.rs,           *)
(* src/result.rs) and the number parser of its lexer (src/lexer.rs).       *)
(*                                                                         *)
(* A parser is a tree <<op, operands...>>; Apply(p, input, start) is the   *)
(* boxed closure (self.parse)(input, start) of that tree.  Offsets are the *)
(* 0-based offsets of the Rust code; input[start] is input[start + 1] of   *)
(* the TLA+ sequence.  A result is one of                                  *)
(*   [kind |-> "ok", out, end]   Ok((output, end))                         *)
(*   [kind |-> "err", err]       Err(error)                                *)
(*   [kind |-> "panic"]          the call unwinds (slice index out of      *)
(*                               range in collect)                         *)
(*   [kind |-> "hang"]           the call does not return (a repeat loop   *)
(*                               whose inner parser never fails)           *)
(***************************************************************************)
EXTENDS Integers, Sequences, FiniteSets, TLC

\* ---------------------------------------------------------------- bounds
\* longest generated input
MaxLen == 3
\* largest count written in a bounded range literal (0..n, ..n)
MaxCount == 1

\* ---------------------------------------------------------------- bytes
DigitSeq == <<"0", "1", "2", "3", "4", "5", "6", "7", "8", "9">>
\* b'0'..=b'9'
is_ascii_digit(c) == \E i \in 1..Len(DigitSeq) : DigitSeq[i] = c
\* the closure of lexer.rs:15
not_zero_ascii_digit(c) == is_ascii_digit(c) /\ c # "0"
\* the letters that occur in the inputs ("xFF" is the byte 0xFF, not a letter)
is_ascii_alphabetic(c) == c \in {"H", "D", "e"}
\* value of a digit byte
DigitVal(c) == (CHOOSE i \in 1..Len(DigitSeq) : DigitSeq[i] = c) - 1

\* ---------------------------------------------------------------- errors
Incomplete == <<"Incomplete">>
ExpectErr == <<"Expect", "digit", 0, Incomplete>>
CustomErr == <<"Custom", "bad token", 0, <<"None">>>>

\* ---------------------------------------------------------------- results
Ok(out, end) == [kind |-> "ok", out |-> out, end |-> end]
Err(e) == [kind |-> "err", err |-> e]
Panic == [kind |-> "panic"]
Hang == [kind |-> "hang"]
\* no result yet
NoResult == [kind |-> "none"]

\* ---------------------------------------------------------------- ranges
\* a range literal: <<"Range", a, b>> is a..b, <<"RangeFrom", a>> is a..,
\* <<"RangeTo", b>> is ..b, <<"RangeFull">> is ..
RangeStart(r) ==
    CASE r[1] = "Range" -> <<"Included", r[2]>>
      [] r[1] = "RangeFrom" -> <<"Included", r[2]>>
      [] r[1] = "RangeTo" -> <<"Unbounded">>
      [] r[1] = "RangeFull" -> <<"Unbounded">>

RangeEnd(r) ==
    CASE r[1] = "Range" -> <<"Included", r[3]>>
      [] r[1] = "RangeFrom" -> <<"Unbounded">>
      [] r[1] = "RangeTo" -> <<"Excluded", r[2]>>
      [] r[1] = "RangeFull" -> <<"Unbounded">>

\* ---------------------------------------------------------------- closures
\* the closures the parsers of this model are built with
map_fn(f, o) == <<"mapped", o>>

decide_fn(f, o) ==
    CASE f = "is_ascii_digit" -> is_ascii_digit(o[2])
      [] f = "not_zero_ascii_digit" -> not_zero_ascii_digit(o[2])
      [] f = "is_ascii_alphabetic" -> is_ascii_alphabetic(o[2])

\* str::from_utf8 on the bytes of the model: every byte but 0xFF is ASCII
from_utf8(o) ==
    IF \E i \in 1..Len(o[2]) : o[2][i] = "xFF"
    THEN <<"Err">>
    ELSE <<"Ok", <<"str", o[2]>>>>

RECURSIVE DecimalValue(_)
DecimalValue(ds) ==
    IF ds = <<>> THEN 0
    ELSE 10 * DecimalValue(SubSeq(ds, 1, Len(ds) - 1)) + DigitVal(ds[Len(ds)])

RECURSIVE StripZeros(_)
StripZeros(ds) ==
    IF ds # <<>> /\ ds[Len(ds)] = "0" THEN StripZeros(SubSeq(ds, 1, Len(ds) - 1)) ELSE ds

\* f64::from_str on the strings of the model: digits with at most one '.',
\* at least one digit; the value is mantissa / 10^scale, trailing zeros of
\* the fraction dropped ("1.50" and "1.5" are the same number)
f64_from_str(o) ==
    LET s == o[2]
        dots == {i \in 1..Len(s) : s[i] = "."}
        wellformed == /\ \A i \in 1..Len(s) : is_ascii_digit(s[i]) \/ s[i] = "."
                      /\ Cardinality(dots) <= 1
                      /\ \E i \in 1..Len(s) : is_ascii_digit(s[i])
        dot == IF dots = {} THEN Len(s) + 1 ELSE CHOOSE i \in dots : TRUE
        int == SubSeq(s, 1, dot - 1)
        frac == StripZeros(SubSeq(s, dot + 1, Len(s)))
    IN IF wellformed
       THEN <<"Ok", <<"f64", DecimalValue(int \o frac), Len(frac)>>>>
       ELSE <<"Err">>

convert_fn(f, o) ==
    CASE f = "from_utf8" -> from_utf8(o)
      [] f = "f64_from_str" -> f64_from_str(o)

\* ---------------------------------------------------------------- parsers
\* (self.parse)(input, start): the closure boxed in the parser p
RECURSIVE Apply(_, _, _)

\* Parser::new around a closure that fails with the error e
custom(e, input, start) == Err(e)

epsilon(input, start) == Ok(<<"unit">>, start)

next(input, start) ==
    IF Len(input) > 0
    THEN Ok(<<"elem", input[1]>>, start + 1)
    ELSE Err(Incomplete)

sym(t, input, start) ==
    IF start < Len(input) /\ input[start + 1] = t
    THEN Ok(<<"elem", input[start + 1]>>, start + 1)
    ELSE Err(Incomplete)

seq(t, input, start) ==
    IF \A index \in 0..(Len(t) - 1) :
          start + index < Len(input) /\ input[start + index + 1] = t[index + 1]
    THEN Ok(<<"slice", t>>, start + Len(t))
    ELSE Err(Incomplete)

trace(p, input, start) ==
    LET r == Apply(p, input, start)
    IN CASE r.kind = "ok" -> Ok(r.out, r.end)
         [] r.kind = "err" -> Err(Incomplete)
         [] OTHER -> r

map(p, f, input, start) ==
    LET r == Apply(p, input, start)
    IN IF r.kind = "ok" THEN Ok(map_fn(f, r.out), r.end) ELSE r

collect(p, input, start) ==
    LET r == Apply(p, input, start)
    IN IF r.kind = "ok"
       THEN IF start <= r.end /\ r.end <= Len(input)
            THEN Ok(<<"slice", SubSeq(input, start + 1, r.end)>>, r.end)
            ELSE Panic
       ELSE r

convert(p, f, input, start) ==
    LET r == Apply(p, input, start)
    IN IF r.kind = "ok"
       THEN LET c == convert_fn(f, r.out)
            IN IF c[1] = "Ok" THEN Ok(c[2], r.end) ELSE Err(Incomplete)
       ELSE r

decide(p, f, input, start) ==
    LET r == Apply(p, input, start)
    IN CASE r.kind = "ok" -> IF decide_fn(f, r.out) THEN Ok(r.out, r.end) ELSE Err(Incomplete)
         [] r.kind = "err" -> Err(Incomplete)
         [] OTHER -> r

opt(p, input, start) ==
    LET r == Apply(p, input, start)
    IN CASE r.kind = "ok" -> Ok(<<"some", r.out>>, r.end)
         [] r.kind = "err" -> Ok(<<"none">>, start)
         [] OTHER -> r

\* bitand with the fault of trace: a failure of a sub-parser becomes Incomplete
bitand_incomplete(lhs, rhs, input, start) ==
    LET o == Apply(lhs, input, start)
    IN CASE o.kind = "ok" ->
              LET u == Apply(rhs, input, o.end)
              IN CASE u.kind = "ok" -> Ok(<<"pair", o.out, u.out>>, u.end)
                   [] u.kind = "err" -> Err(Incomplete)
                   [] OTHER -> u
         [] o.kind = "err" -> Err(Incomplete)
         [] OTHER -> o

bitand(lhs, rhs, input, start) ==
    LET o == Apply(lhs, input, start)
    IN IF o.kind = "ok"
       THEN LET u == Apply(rhs, input, o.end)
            IN IF u.kind = "ok" THEN Ok(<<"pair", o.out, u.out>>, u.end) ELSE u
       ELSE o

\* bitor that does not restart: the alternative runs one element further on
bitor_no_restart(lhs, rhs, input, start) ==
    LET r == Apply(lhs, input, start)
    IN CASE r.kind = "ok" -> Ok(r.out, r.end)
         [] r.kind = "err" -> Apply(rhs, input, start + 1)
         [] OTHER -> r

bitor(lhs, rhs, input, start) ==
    LET r == Apply(lhs, input, start)
    IN CASE r.kind = "ok" -> Ok(r.out, r.end)
         [] r.kind = "err" -> Apply(rhs, input, start)
         [] OTHER -> r

shl(lhs, rhs, input, start) ==
    LET o == Apply(lhs, input, start)
    IN IF o.kind = "ok"
       THEN LET u == Apply(rhs, input, o.end)
            IN IF u.kind = "ok" THEN Ok(o.out, u.end) ELSE u
       ELSE o

shr(lhs, rhs, input, start) ==
    LET o == Apply(lhs, input, start)
    IN IF o.kind = "ok"
       THEN LET u == Apply(rhs, input, o.end)
            IN IF u.kind = "ok" THEN Ok(u.out, u.end) ELSE u
       ELSE o

\* ---------------------------------------------------------------- repeat
\* the locals of the closure of repeat: start (mut), index, end, result
RepeatRegs(start) == [start |-> start, index |-> 0, end |-> start, result |-> <<>>]

\* parser.rs:92-94, before the loop: an upper bound Included(0) returns at once
RepeatEarly(range) == RangeEnd(range) = <<"Included", 0>>

\* one pass through the loop body, parser.rs:96-123: either the closure
\* returns (done, res) or the loop goes round with new locals (regs)
RepeatIter(p, range, input, regs) ==
    LET r == Apply(p, input, regs.start)
        bound == RangeEnd(range)
    IN CASE r.kind = "ok" ->
              LET result == Append(regs.result, r.out)
                  end == r.end
                  index == regs.index + 1
                  now == [start |-> end, index |-> index, end |-> end, result |-> result]
              IN IF \/ (bound[1] = "Excluded" /\ bound[2] <= index)
                    \/ (bound[1] = "Included" /\ bound[2] < index)
                 THEN [done |-> TRUE, res |-> Ok(<<"vec", result>>, end), regs |-> now]
                 ELSE [done |-> FALSE, res |-> NoResult, regs |-> now]
         [] r.kind = "err" ->
              [done |-> TRUE,
               res |-> IF bound[1] = "Unbounded"
                       THEN Ok(<<"vec", regs.result>>, regs.start)
                       ELSE Err(Incomplete),
               regs |-> [regs EXCEPT !.end = regs.start]]
         [] OTHER -> [done |-> TRUE, res |-> r, regs |-> regs]

\* A loop that is still running after IterCap(input) passes never returns:
\* a bounded range returns after at most MaxCount + 1 passes; under an
\* unbounded range a pass that succeeds without moving the offset repeats
\* itself for ever, and passes that move it are past the end of the input
\* after Len(input) + 1 of them, from where every pass has the same outcome.
IterCap(input) == Len(input) + MaxCount + 3

RECURSIVE RepeatLoop(_, _, _, _)
RepeatLoop(p, range, input, regs) ==
    IF regs.index >= IterCap(input)
    THEN Hang
    ELSE LET it == RepeatIter(p, range, input, regs)
         IN IF it.done THEN it.res ELSE RepeatLoop(p, range, input, it.regs)

repeat(p, range, input, start) ==
    IF RepeatEarly(range)
    THEN Ok(<<"vec", <<>>>>, start)
    ELSE RepeatLoop(p, range, input, RepeatRegs(start))

Apply(p, input, start) ==
    CASE p[1] = "custom" -> custom(p[2], input, start)
      [] p[1] = "epsilon" -> epsilon(input, start)
      [] p[1] = "next" -> next(input, start)
      [] p[1] = "sym" -> sym(p[2], input, start)
      [] p[1] = "seq" -> seq(p[2], input, start)
      [] p[1] = "trace" -> trace(p[2], input, start)
      [] p[1] = "map" -> map(p[2], p[3], input, start)
      [] p[1] = "collect" -> collect(p[2], input, start)
      [] p[1] = "convert" -> convert(p[2], p[3], input, start)
      [] p[1] = "decide" -> decide(p[2], p[3], input, start)
      [] p[1] = "repeat" -> repeat(p[2], p[3], input, start)
      [] p[1] = "opt" -> opt(p[2], input, start)
      [] p[1] = "bitand" -> bitand(p[2], p[3], input, start)
      [] p[1] = "bitor" -> bitor(p[2], p[3], input, start)
      [] p[1] = "shl" -> shl(p[2], p[3], input, start)
      [] p[1] = "shr" -> shr(p[2], p[3], input, start)

\* ---------------------------------------------------------------- the parsers and inputs explored
\* lexer.rs:15-20
not_zero_digit_p == <<"decide", <<"next">>, "not_zero_ascii_digit">>
ascii_digit_p == <<"repeat", <<"decide", <<"next">>, "is_ascii_digit">>, <<"RangeFrom", 0>>>>
integer_p == <<"bitor", <<"shl", not_zero_digit_p, ascii_digit_p>>, <<"sym", "0">>>>
frac_p ==
    <<"shl", <<"sym", ".">>,
             <<"repeat", <<"decide", <<"next">>, "is_ascii_digit">>, <<"RangeFrom", 1>>>>>>
number ==
    <<"convert",
      <<"convert", <<"collect", <<"bitand", integer_p, <<"opt", frac_p>>>>>>, "from_utf8">>,
      "f64_from_str">>

\* the parser of tests::it_repeat
it_repeat ==
    <<"convert",
      <<"collect",
        <<"repeat", <<"decide", <<"next">>, "is_ascii_alphabetic">>, <<"RangeFrom", 0>>>>>>,
      "from_utf8">>

ElemAtoms ==
    { <<"next">>, <<"sym", "0">>, <<"sym", "1">>,
      <<"decide", <<"next">>, "is_ascii_digit">>,
      <<"custom", ExpectErr>>, <<"custom", CustomErr>> }

Atoms == ElemAtoms \cup { <<"epsilon">>, <<"seq", <<"0", ".">>>> }

Ranges ==
    { <<"RangeFrom", 0>>, <<"RangeFrom", 1>>, <<"RangeFull">> }
    \cup { <<"Range", 0, n>> : n \in 0..MaxCount }
    \cup { <<"RangeTo", n>> : n \in 0..MaxCount }

Repeats == { <<"repeat", a, r>> : a \in Atoms, r \in Ranges }

\* parsers with a Vec<u8> output and with a &[u8] output, for both sides of |
VecParsers ==
    { <<"repeat", <<"sym", "0">>, <<"RangeFrom", 0>>>>,
      <<"repeat", <<"sym", "0">>, <<"RangeTo", 1>>>>,
      <<"repeat", <<"next">>, <<"RangeFrom", 0>>>> }
SliceParsers ==
    { <<"seq", <<"0", ".">>>>,
      <<"collect", <<"sym", "0">>>>,
      <<"collect", <<"bitand", <<"next">>, <<"next">>>>>> }

Unary ==
    { <<"trace", a>> : a \in Atoms } \cup { <<"map", a, "wrap">> : a \in Atoms }
    \cup { <<"collect", a>> : a \in Atoms } \cup { <<"opt", a>> : a \in Atoms }
    \cup { <<"convert", <<"collect", a>>, "from_utf8">> : a \in Atoms }

Alternatives ==
    { <<"bitor", a, b>> : a \in ElemAtoms, b \in ElemAtoms }
    \cup { <<"bitor", a, b>> : a \in VecParsers, b \in VecParsers }
    \cup { <<"bitor", a, b>> : a \in SliceParsers, b \in SliceParsers }

Sequences2 ==
    { <<op, a, b>> : op \in {"bitand", "shl", "shr"}, a \in Atoms,
                     b \in Atoms \cup VecParsers \cup SliceParsers }

Parsers ==
    Atoms \cup Unary \cup Repeats \cup Alternatives \cup Sequences2
    \cup { number, it_repeat, <<"collect", <<"bitand", <<"next">>, <<"next">>>>>> }

RECURSIVE SeqsOver(_, _)
SeqsOver(S, n) ==
    IF n = 0 THEN { <<>> }
    ELSE LET shorter == SeqsOver(S, n - 1)
         IN shorter \cup { Append(s, c) : s \in { x \in shorter : Len(x) = n - 1 }, c \in S }

\* the inputs of the tests and of the scenarios of the specification, and
\* every byte string of at most MaxLen bytes over '0', '1', '.'
Inputs ==
    SeqsOver({"0", "1", "."}, MaxLen)
    \cup { <<"2", "2", "1", "3", "4", "H", "D">>, <<"0", "1", "2", "3">>,
           <<"H", "e">>, <<"0", "H">>, <<"xFF">> }

\* ---------------------------------------------------------------- state
VARIABLES
    parser,     \* the parser under test
    input,      \* the borrowed input slice
    start,      \* the offset the closure is applied at: parse() passes 0, a
                \* combinator passes the end offset of the parser before,
                \* which next() can put one past the end of a non-empty input
    pc,         \* "ready", "loop" (in the loop of repeat), "running" (a call
                \* that does not return), "done"
    regs,       \* the locals of the repeat closure while pc = "loop"
    res,        \* what the call produced
    observed    \* the calls made to the trace_fn of a trace at the root

vars == <<parser, input, start, pc, regs, res, observed>>

Init ==
    /\ parser \in Parsers
    /\ input \in Inputs
    /\ start \in 0..(IF input = <<>> THEN 0 ELSE Len(input) + 1)
    /\ pc = "ready"
    /\ regs = RepeatRegs(start)
    /\ res = NoResult
    /\ observed = <<>>

\* the call of a parser that is not a repeat: the whole closure at once
Parse ==
    /\ pc = "ready"
    /\ parser[1] # "repeat"
    /\ res' = Apply(parser, input, start)
    /\ pc' = IF res'.kind = "hang" THEN "running" ELSE "done"
    /\ observed' = IF parser[1] = "trace" /\ res'.kind = "ok"
                   THEN Append(observed, <<res'.out, start, res'.end>>)
                   ELSE observed
    /\ UNCHANGED <<parser, input, start, regs>>

\* the call of a repeat: parser.rs:89-94, up to the loop
RepeatCall ==
    /\ pc = "ready"
    /\ parser[1] = "repeat"
    /\ regs' = RepeatRegs(start)
    /\ IF RepeatEarly(parser[3])
       THEN pc' = "done" /\ res' = Ok(<<"vec", <<>>>>, start)
       ELSE pc' = "loop" /\ res' = res
    /\ UNCHANGED <<parser, input, start, observed>>

\* one pass through the loop of repeat
RepeatStep ==
    /\ pc = "loop"
    /\ regs.index < IterCap(input)
    /\ LET it == RepeatIter(parser[2], parser[3], input, regs)
       IN /\ regs' = it.regs
          /\ IF it.done
             THEN /\ res' = it.res
                  /\ pc' = IF it.res.kind = "hang" THEN "running" ELSE "done"
             ELSE pc' = "loop" /\ res' = res
    /\ UNCHANGED <<parser, input, start, observed>>

Next == Parse \/ RepeatCall \/ RepeatStep

Spec == Init /\ [][Next]_vars

\* ---------------------------------------------------------------- claims
\* The loop of repeat taken pass by pass (RepeatCall, RepeatStep) and taken
\* whole (repeat) are the same function; a loop stopped by IterCap is one
\* that repeat reports as never returning.
StepwiseAgrees ==
    /\ (parser[1] = "repeat" /\ pc = "done") => res = Apply(parser, input, start)
    /\ (pc = "loop" /\ regs.index >= IterCap(input)) => Apply(parser, input, start) = Hang

\* CanStep is ENABLED Next, written out from the guards of the actions.
CanStep == pc = "ready" \/ (pc = "loop" /\ regs.index < IterCap(input))

\* C1: every call of parse (start offset 0) runs to completion, whatever
\* the parser and the input.  Every step of a run adds a pass to a loop
\* that IterCap bounds, so a run is finite: the call runs to completion iff
\* the run can stop nowhere but in a state where the call is over (that a
\* call is over by unwinding and not by returning is C6).
C1_ParseReturns == (start = 0) => (pc = "done" \/ CanStep)

\* C2: next() succeeds iff start < len(input); on success its output is
\* input[start] and its end offset is start + 1; otherwise it fails with
\* Incomplete.
C2_NextContract ==
    (pc = "done" /\ parser = <<"next">>) =>
        IF start < Len(input)
        THEN res = Ok(<<"elem", input[start + 1]>>, start + 1)
        ELSE res = Err(Incomplete)

\* C3: P.repeat(1..) fails if and only if P fails on its very first attempt.
C3_RepeatFromOne ==
    (pc = "done" /\ parser[1] = "repeat" /\ parser[3] = <<"RangeFrom", 1>>) =>
        (res.kind = "err" <=> Apply(parser[2], input, start).kind = "err")

\* C4: a successful P.repeat(0..1) holds at most one output and ends no
\* later than the end offset of the first match of P.
C4_RepeatZeroToOne ==
    (pc = "done" /\ parser[1] = "repeat" /\ parser[3] = <<"Range", 0, 1>>
        /\ res.kind = "ok") =>
        LET first == Apply(parser[2], input, start)
        IN /\ Len(res.out[2]) <= 1
           /\ res.end <= (IF first.kind = "ok" THEN first.end ELSE start)

\* the number grammar of the lexer, stated on strings: (a non-zero digit
\* followed by digits, or a bare '0'), optionally followed by '.' and one
\* or more digits
IsIntegerText(s) ==
    /\ Len(s) >= 1
    /\ \A i \in 1..Len(s) : is_ascii_digit(s[i])
    /\ (s[1] = "0" => Len(s) = 1)
IsNumberText(s) ==
    \/ IsIntegerText(s)
    \/ \E d \in 2..(Len(s) - 1) :
          /\ IsIntegerText(SubSeq(s, 1, d - 1))
          /\ s[d] = "."
          /\ \A i \in (d + 1)..Len(s) : is_ascii_digit(s[i])
NumberPrefixes(s) == { k \in 1..Len(s) : IsNumberText(SubSeq(s, 1, k)) }
LongestNumberPrefix(s) ==
    CHOOSE k \in NumberPrefixes(s) : \A j \in NumberPrefixes(s) : j <= k

\* C5: on an input that begins with a number, the number parser of the
\* lexer succeeds and consumes exactly the longest prefix that is a number
\* ("22134" of "22134HD", "0" of "0123"); its value is that of the prefix.
C5_NumberLongestPrefix ==
    (pc # "ready" /\ parser = number /\ start = 0 /\ NumberPrefixes(input) # {}) =>
        LET k == LongestNumberPrefix(input)
        IN /\ pc = "done"
           /\ res.kind = "ok"
           /\ res.end = k
           /\ res.out = f64_from_str(<<"str", SubSeq(input, 1, k)>>)[2]

\* C6: a parse never unwinds: it ends in Ok or Err, and a success ends at
\* an offset within the input.
C6_NoAbort ==
    (pc = "done" /\ start = 0) =>
        /\ res.kind \in {"ok", "err"}
        /\ (res.kind = "ok" => (start <= res.end /\ res.end <= Len(input)))

\* C7: when A succeeds, A | B is the result of A, whatever B would do;
\* when A fails, A | B is exactly the result of B from the original start.
C7_AlternationRestart ==
    (pc # "ready" /\ parser[1] = "bitor") =>
        LET a == Apply(parser[2], input, start)
        IN /\ (a.kind = "ok" => res = a)
           /\ (a.kind = "err" => res = Apply(parser[3], input, start))

C7_Witness ==
    /\ pc = "done" /\ parser[1] = "bitor" /\ start > 0
    /\ parser[2][1] = "sym" /\ parser[3][1] = "sym"
    /\ Apply(parser[2], input, start).kind = "err"
    /\ res.kind = "ok"
    /\ res.end > start

\* C8: P.trace(observer) returns what P returns: the same output and end
\* offset, or the same error value.
C8_TraceTransparent ==
    (pc # "ready" /\ parser[1] = "trace") => res = Apply(parser[2], input, start)

\* the offset reached after n consecutive matches of p from start
RECURSIVE RunEnd(_, _, _, _)
RunEnd(p, s, st, n) ==
    IF n = 0 THEN st ELSE Apply(p, s, RunEnd(p, s, st, n - 1)).end

\* C9: for every P, input and start offset P.repeat(0..) returns (its run
\* stops nowhere but in a state where it has returned), and never fails;
\* what it returns is the outputs, in order, of the consecutive
\* matches of P from the start offset up to the first attempt of P that
\* fails, and its end offset is where that attempt began.
C9_RepeatZeroOrMore ==
    (pc # "ready" /\ parser[1] = "repeat" /\ parser[3] = <<"RangeFrom", 0>>) =>
        /\ pc = "done" \/ CanStep
        /\ pc = "done" =>
              LET outs == res.out[2]
                  n == Len(outs)
              IN /\ res.kind = "ok"
                 /\ \A i \in 1..n :
                       Apply(parser[2], input, RunEnd(parser[2], input, start, i - 1))
                           = Ok(outs[i], RunEnd(parser[2], input, start, i))
                 /\ Apply(parser[2], input, RunEnd(parser[2], input, start, n)).kind = "err"
                 /\ res.end = RunEnd(parser[2], input, start, n)

\* C10: in A & B, A << B and A >> B, B runs only if A succeeds and from the
\* end offset of A; a failure of A or of B is the failure of the whole,
\* with the same error value.
C10_SequencePropagates ==
    (pc # "ready" /\ parser[1] \in {"bitand", "shl", "shr"}) =>
        LET a == Apply(parser[2], input, start)
        IN /\ (a.kind = "err" => res = a)
           /\ (a.kind = "ok" =>
                 LET b == Apply(parser[3], input, a.end)
                 IN /\ (b.kind = "err" => res = b)
                    /\ (b.kind = "ok" =>
                          res = Ok(CASE parser[1] = "bitand" -> <<"pair", a.out, b.out>>
                                     [] parser[1] = "shl" -> a.out
                                     [] parser[1] = "shr" -> b.out,
                                   b.end)))

C10_Witness ==
    /\ pc = "done" /\ parser[1] \in {"bitand", "shl", "shr"}
    /\ Apply(parser[2], input, start).kind = "ok"
    /\ res.kind = "err"
    /\ res.err # Incomplete

====
